---- MODULE Spec2Model ----
(***************************************************************************)
(* A model of spotdl/providers/audio/base.py: AudioProvider.search, the    *)
(* scorer order_results and the selector get_best_match.                   *)
(*                                                                         *)
(* Slugs are sequences of small naturals: 0 is the hyphen, 1..3 are        *)
(* letters, ordered as their code points.  The slugs of a song and of a    *)
(* result are inputs (slugify is applied before anything the model reads). *)
(* rapidfuzz's fuzz.ratio is an external black box: the value of each call *)
(* is an input carried by the result (rMain, rArtists, ...), one field per *)
(* call site, so two calls with the same arguments read the same field.    *)
(* Scores are exact rationals, kept as integers in units of 1/Den.         *)
(***************************************************************************)
EXTENDS Integers, Sequences, FiniteSets, TLC

VARIABLES
    track,           \* the Song searched for
    cfg,             \* the provider: filter_results, search_query, SUPPORTS_ISRC
    view_count,      \* the backend's answer to get_views, per url ("fail": raises)
    pc,              \* position of search
    opt,             \* index into GET_RESULTS_OPTS of the next option set
    search_results,  \* the list the last get_results call returned
    new_results,     \* the mapping the last order_results call returned
    results,         \* the accumulated mapping of search
    fetched,         \* log of the get_results calls: [what, ok, kept]
    best,            \* log of the last get_best_match call
    ret,             \* the value search returned
    err              \* the exception search raised, or "none"

vars == <<track, cfg, view_count, pc, opt, search_results, new_results,
          results, fetched, best, ret, err>>

\* Common denominator of every score the scorer computes: the divisions are
\* by 2 (three times in a row at most), by the number of song artists (<= 4)
\* and by the song's duration (which divides 100 * Den in the inputs below).
Den == 2 * 2 * 2 * 2 * 2 * 3

\* A whole number of points, in units of 1/Den.
Pts(n) == n * Den

\* Exact division, also by a negative divisor (Python's true division).
Div(a, b) == IF b > 0 THEN a \div b ELSE -(a \div (-b))

None == "None"

----------------------------------------------------------------------------
\* Strings

Hyphen == 0

RECURSIVE Dehyphen(_)
\* str.replace("-", "")
Dehyphen(s) ==
    IF s = <<>> THEN <<>>
    ELSE IF Head(s) = Hyphen THEN Dehyphen(Tail(s))
    ELSE <<Head(s)>> \o Dehyphen(Tail(s))

\* Python's `a in b` on strings
IsSubstr(a, b) ==
    \E i \in 0..(Len(b) - Len(a)) : SubSeq(b, i + 1, i + Len(a)) = a

RECURSIVE SplitFrom(_, _)
\* str.split("-"), with cur the token being read
SplitFrom(s, cur) ==
    IF s = <<>> THEN <<cur>>
    ELSE IF Head(s) = Hyphen THEN <<cur>> \o SplitFrom(Tail(s), <<>>)
    ELSE SplitFrom(Tail(s), Append(cur, Head(s)))

Split(s) == SplitFrom(s, <<>>)

RECURSIVE Join(_)
\* "-".join(tokens)
Join(tokens) ==
    IF tokens = <<>> THEN <<>>
    ELSE IF Len(tokens) = 1 THEN Head(tokens)
    ELSE Head(tokens) \o <<Hyphen>> \o Join(Tail(tokens))

RECURSIVE StrLess(_, _)
\* Python's a < b on strings
StrLess(a, b) ==
    IF b = <<>> THEN FALSE
    ELSE IF a = <<>> THEN TRUE
    ELSE IF Head(a) # Head(b) THEN Head(a) < Head(b)
    ELSE StrLess(Tail(a), Tail(b))

RECURSIVE Insert(_, _)
Insert(tok, sorted) ==
    IF sorted = <<>> THEN <<tok>>
    ELSE IF StrLess(tok, Head(sorted)) THEN <<tok>> \o sorted
    ELSE <<Head(sorted)>> \o Insert(tok, Tail(sorted))

RECURSIVE SortTokens(_)
\* list.sort() of a list of strings
SortTokens(tokens) ==
    IF tokens = <<>> THEN <<>>
    ELSE Insert(Head(tokens), SortTokens(Tail(tokens)))

RECURSIVE SumSeq(_)
SumSeq(s) == IF s = <<>> THEN 0 ELSE Head(s) + SumSeq(Tail(s))

RECURSIVE Concat(_)
\* the strings of a list, one after the other
Concat(list) == IF list = <<>> THEN <<>> ELSE Head(list) \o Concat(Tail(list))

----------------------------------------------------------------------------
\* order_results: the scorer
\*
\* A song is [slug_name, slug_album_name, artists, slug_title, duration, isrc]:
\* artists holds slugify(artist) of each of song.artists (artists[1] is
\* song.artist), slug_title is slug_song_title.
\* A result is [url, verified, isrc_search, slug_name, artists, slug_album,
\* duration, views, rMain, rArtists, rPairs, rChannel, rTest, rAlbum, rClean,
\* rName]: slug_album = <<>> is a result without album, views = 0 a result
\* without stored views, and the r-fields are the values fuzz.ratio returns:
\*   rMain     fuzz.ratio(slug_song_main_artist, slugify(result.artists[0]))
\*   rArtists  fuzz.ratio(slug_song_artists, slug_result_artists)
\*   rPairs    fuzz.ratio(artist1, artist2) of the aligned pairs, in order
\*   rChannel  fuzz.ratio(slugify(song.artist), slug_result_artists)
\*   rTest     fuzz.ratio(test_str1, test_str2)
\*   rAlbum    fuzz.ratio(slug_result_album, slug_song_album_name)
\*   rClean    fuzz.ratio("-".join(clean_title1), "-".join(clean_title2))
\*   rName     fuzz.ratio(slug_result_name, slug_song_name)

\* common_word: some word of the song's name occurs in the result's name
common_word(result, song) ==
    LET sentence_words == Split(song.slug_name)
    IN  \E i \in 1..Len(sentence_words) :
            /\ sentence_words[i] # <<>>
            /\ IsSubstr(sentence_words[i], result.slug_name)

RECURSIVE Augment(_, _, _)
\* for artist in song.artists: if the artist is in `other` and not in `str`,
\* str += "-" + artist   (both compared without hyphens)
Augment(str, other, artists) ==
    IF artists = <<>> THEN str
    ELSE LET a   == Dehyphen(Head(artists))
             hit == /\ IsSubstr(a, Dehyphen(other))
                    /\ ~IsSubstr(a, Dehyphen(str))
         IN  Augment(IF hit THEN str \o <<Hyphen>> \o a ELSE str,
                     other, Tail(artists))

\* test_str1 and test_str2, augmented and token-sorted
test_strs(result, song) ==
    LET str1 == result.slug_name
        str2 == IF result.verified THEN song.slug_name ELSE song.slug_title
        aug1 == Augment(str1, str2, song.artists)
        aug2 == Augment(str2, aug1, song.artists)
    IN  [test_str1 |-> Join(SortTokens(Split(aug1))),
         test_str2 |-> Join(SortTokens(Split(aug2)))]

\* main_artist_match
main_artist_match(result) ==
    IF result.artists # <<>> THEN Pts(result.rMain) ELSE 0

\* artists_match, when the song has several artists
artists_match(result, song) ==
    IF result.artists # <<>> /\ Len(song.artists) = Len(result.artists)
    THEN Pts(result.rArtists)
    ELSE IF /\ result.artists # <<>>
            /\ Len(result.artists) * 100 > 60 * Len(song.artists)
            /\ Len(song.artists) > 2
         THEN Div(Pts(SumSeq(result.rPairs)), Len(song.artists))
         ELSE main_artist_match(result)

\* artist_match_number
artist_match_number(result, song) ==
    IF Len(song.artists) > 1
    THEN main_artist_match(result) + artists_match(result, song)
    ELSE main_artist_match(result)

\* the first artist_match
first_artist_match(result, song) ==
    Div(artist_match_number(result, song),
        IF Len(song.artists) > 1 THEN 2 ELSE 1)

\* channel_name_match: with one result artist its arguments are those of
\* main_artist_match
channel_name_match(result) ==
    IF Len(result.artists) = 1 THEN Pts(result.rMain) ELSE Pts(result.rChannel)

\* how many of the song's artists occur in the string
ArtistsIn(artists, str) ==
    Cardinality({i \in 1..Len(artists) :
                    IsSubstr(Dehyphen(artists[i]), Dehyphen(str))})

\* the fallback to the channel name: if channel_name_match >
\* artist_match_number, artist_match = channel_name_match
channel_fallback(result, song, artist_match) ==
    IF channel_name_match(result) > artist_match_number(result, song)
    THEN channel_name_match(result)
    ELSE artist_match

\* artist_title_match: the share of the song's artists in the result's name
artist_title_match(result, song) ==
    Div(Pts(ArtistsIn(song.artists, result.slug_name) * 100),
        Len(song.artists))

\* the fallback to the artists in the result's name, if artist_match <= 50
title_fallback(result, song, artist_match) ==
    IF artist_match <= Pts(50) /\ artist_title_match(result, song) > artist_match
    THEN artist_title_match(result, song)
    ELSE artist_match

\* additional checks for results that are not songs
unverified_checks(result, song, artist_match) ==
    IF artist_match <= Pts(50) /\ ~result.verified
    THEN title_fallback(result, song,
                        channel_fallback(result, song, artist_match))
    ELSE artist_match

\* +10 for a similar name, and +25 more for fewer artists with the same
\* main artist
name_bonus(result, song) ==
    IF result.rTest >= 75
    THEN IF /\ result.artists # <<>>
            /\ Len(result.artists) < Len(song.artists)
            /\ Dehyphen(song.artists[1]) \in
                    {Dehyphen(Concat(result.artists)),
                     Dehyphen(result.slug_name)}
         THEN Pts(10 + 25)
         ELSE Pts(10)
    ELSE 0

\* +10 for a similar album
album_bonus(result) ==
    IF result.slug_album # <<>> /\ result.rAlbum >= 85 THEN Pts(10) ELSE 0

\* +15 (+10 with more than two other artists) for each of the song's other
\* artists in test_str2
other_artists_bonus(result, song) ==
    Pts((IF Len(Tail(song.artists)) <= 2 THEN 15 ELSE 10)
        * ArtistsIn(IF main_artist_match(result) > Pts(50)
                    THEN Tail(song.artists) ELSE song.artists,
                    test_strs(result, song).test_str2))

\* the fallback to the artists that are not in the names, if
\* artist_match <= 70
clean_fallback(result, artist_match) ==
    IF artist_match <= Pts(70) /\ Pts(result.rClean) > artist_match
    THEN Pts(result.rClean)
    ELSE artist_match

\* additional checks for results that are songs
verified_checks(result, song, artist_match) ==
    IF artist_match < Pts(70) /\ result.verified
    THEN clean_fallback(result,
            artist_match + name_bonus(result, song) + album_bonus(result)
            + other_artists_bonus(result, song))
    ELSE artist_match

\* artist_match after the additional checks, before the gate and the clamp
raw_artist_match(result, song) ==
    verified_checks(result, song,
        unverified_checks(result, song, first_artist_match(result, song)))

\* artist_match left as it is
unclamped_artist_match(artist_match) == artist_match

\* artist_match = min(artist_match, 100)
clamp_artist_match(artist_match) ==
    IF artist_match > Pts(100) THEN Pts(100) ELSE artist_match

\* name_match
name_match(result, artist_match) ==
    IF artist_match >= Pts(75) THEN Pts(result.rTest) ELSE Pts(result.rName)

\* album_match
album_match(result) ==
    IF result.verified /\ result.slug_album # <<>>
    THEN Pts(result.rAlbum) ELSE 0

\* time_match (the song's duration is not 0)
time_match(result, song) ==
    LET delta == result.duration - song.duration
    IN  Pts(100) - Div(delta * delta * Pts(100), song.duration)

\* average_match with the album match added
add_album_match(result, average_match, album, time) ==
    IF /\ result.verified
       /\ result.slug_album # <<>>
       /\ average_match > Pts(80)
       /\ time > Pts(80)
    THEN average_match + Div(album, 2)
    ELSE average_match

\* the time match averaged in whatever average_match is
add_time_match_always(result, average_match, album, time) ==
    IF /\ time < Pts(50)
       /\ ~result.isrc_search
       /\ album <= Pts(75)
    THEN Div(average_match + time, 2)
    ELSE average_match

\* average_match with the time match averaged in
add_time_match(result, average_match, album, time) ==
    IF /\ time < Pts(50)
       /\ ~result.isrc_search
       /\ average_match < Pts(85)
       /\ album <= Pts(75)
    THEN Div(average_match + time, 2)
    ELSE average_match

\* What one pass of the loop of order_results does with a result: "skip"
\* (continue), "raise" (the division by a duration of 0), or "keep" with
\* the score; artist_match and name_match are those the score is made of.
Skip == [outcome |-> "skip", score |-> 0, artist_match |-> 0, name_match |-> 0]

\* the time gate with 80 for 85
score_total_under_80(result, artist, name, average_match, album, time) ==
    IF time < Pts(50) /\ average_match < Pts(80) THEN Skip
    ELSE [outcome |-> "keep",
          score |-> add_time_match(result, average_match, album, time),
          artist_match |-> artist, name_match |-> name]

\* the time gate and the final average_match
score_total(result, artist, name, average_match, album, time) ==
    IF time < Pts(50) /\ average_match < Pts(85) THEN Skip
    ELSE [outcome |-> "keep",
          score |-> add_time_match(result, average_match, album, time),
          artist_match |-> artist, name_match |-> name]

\* the matches of a result that passed the artist and name gates
score_matches(result, song, artist, name, album, time) ==
    score_total(result, artist, name,
                add_album_match(result, Div(artist + name, 2), album, time),
                album, time)

\* the name gate, and the division by the song's duration
score_name(result, song, artist, name) ==
    IF name < Pts(50) THEN Skip
    ELSE IF song.duration = 0
         THEN [outcome |-> "raise", score |-> 0,
               artist_match |-> artist, name_match |-> name]
    ELSE score_matches(result, song, artist, name, album_match(result),
                       time_match(result, song))

\* the clamp of artist_match
score_clamped(result, song, artist) ==
    score_name(result, song, artist, name_match(result, artist))

\* the artist gate
score_artist(result, song, raw) ==
    IF raw < Pts(70) THEN Skip
    ELSE score_clamped(result, song, clamp_artist_match(raw))

\* one pass of the loop of order_results
score_result(result, song) ==
    IF ~common_word(result, song) THEN Skip
    ELSE score_artist(result, song, raw_artist_match(result, song))

\* A dict is the sequence of its items [result, score], in insertion order.
Keys(dict) == {dict[i].result : i \in 1..Len(dict)}

\* dict[key] = value
DictSet(dict, key, value) ==
    IF key \in Keys(dict)
    THEN [i \in 1..Len(dict) |->
            IF dict[i].result = key THEN [result |-> key, score |-> value]
            ELSE dict[i]]
    ELSE Append(dict, [result |-> key, score |-> value])

RECURSIVE DictUpdate(_, _)
\* dict.update(other)
DictUpdate(dict, other) ==
    IF other = <<>> THEN dict
    ELSE DictUpdate(DictSet(dict, Head(other).result, Head(other).score),
                    Tail(other))

\* links_with_match_value after the pass over a result that did not raise
with_scored(links_with_match_value, result, one) ==
    IF one.outcome = "keep"
    THEN DictSet(links_with_match_value, result, one.score)
    ELSE links_with_match_value

RECURSIVE order_results_from(_, _, _)
\* the loop of order_results, links_with_match_value being the dict so far
order_results_from(list, song, links_with_match_value) ==
    IF list = <<>> THEN [raises |-> FALSE, dict |-> links_with_match_value]
    ELSE IF score_result(Head(list), song).outcome = "raise"
         THEN [raises |-> TRUE, dict |-> <<>>]
         ELSE order_results_from(Tail(list), song,
                with_scored(links_with_match_value, Head(list),
                            score_result(Head(list), song)))

\* order_results(results, song): raises (ZeroDivisionError) or returns a dict
order_results(list, song) == order_results_from(list, song, <<>>)

----------------------------------------------------------------------------
\* get_best_match: the selector

RECURSIVE InsertByScore(_, _)
\* an item put after every item of a score at least its own
InsertByScore(item, sorted) ==
    IF sorted = <<>> THEN <<item>>
    ELSE IF Head(sorted).score >= item.score
         THEN <<Head(sorted)>> \o InsertByScore(item, Tail(sorted))
         ELSE <<item>> \o sorted

RECURSIVE SortByScoreFrom(_, _)
SortByScoreFrom(items, sorted) ==
    IF items = <<>> THEN sorted
    ELSE SortByScoreFrom(Tail(items), InsertByScore(Head(items), sorted))

\* sorted(result_items, key=lambda x: x[1], reverse=True): stable
sorted_by_score(items) == SortByScoreFrom(items, <<>>)

\* last_simlar_index with the index counted from 1: the slice takes one
\* item more
last_simlar_index_from_one(sorted_results) ==
    LET best_score == sorted_results[1].score
        far == {i \in 1..Len(sorted_results) :
                    best_score - sorted_results[i].score > Pts(8)}
    IN  IF far = {} THEN 1
        ELSE CHOOSE i \in far : \A j \in far : i <= j

\* last_simlar_index: the index (from 0) of the first item more than 8
\* points under the best, and 1 when there is none
last_simlar_index(sorted_results) ==
    LET best_score == sorted_results[1].score
        far == {i \in 1..Len(sorted_results) :
                    best_score - sorted_results[i].score > Pts(8)}
    IN  IF far = {} THEN 1
        ELSE (CHOOSE i \in far : \A j \in far : i <= j) - 1

\* best_results
similar_results(sorted_results) ==
    SubSeq(sorted_results, 1, last_simlar_index(sorted_results))

\* best_results of a dict that is not empty
best_results(dict) == similar_results(sorted_by_score(dict))

\* get_views with a default of 0 views when get_download_metadata raises
get_views_or_zero(url, views) ==
    IF views[url].ok THEN views[url] ELSE [ok |-> TRUE, count |-> 0]

\* get_views(url): [ok, count], ok = FALSE when get_download_metadata raises
get_views(url, views) == views[url]

\* views_data of an item: the stored views, else get_views
views_of(item, views) ==
    IF item.result.views # 0
    THEN [ok |-> TRUE, count |-> item.result.views]
    ELSE get_views(item.result.url, views)

\* views_data.index(max(views_data)), from 1
most_viewed(views_data) ==
    CHOOSE i \in 1..Len(views_data) :
        /\ \A j \in 1..Len(views_data) : views_data[j].count <= views_data[i].count
        /\ \A j \in 1..(i - 1) : views_data[j].count < views_data[i].count

\* the best result by views, or the exception of get_views
by_views(bests, views_data) ==
    IF \E i \in 1..Len(bests) : ~views_data[i].ok
    THEN [raises |-> "get_views", url |-> None, score |-> 0]
    ELSE [raises |-> "none",
          url |-> bests[most_viewed(views_data)].result.url,
          score |-> bests[most_viewed(views_data)].score]

\* the return of get_best_match, given best_results
best_of(bests, views) ==
    IF Len(bests) = 1
    THEN [raises |-> "none", url |-> bests[1].result.url,
          score |-> bests[1].score]
    ELSE by_views(bests, [i \in 1..Len(bests) |-> views_of(bests[i], views)])

\* get_best_match(results): raises "IndexError" (an empty dict), "get_views"
\* (a failed lookup) or "none", and then returns (url, score)
get_best_match(dict, views) ==
    IF dict = <<>>
    THEN [raises |-> "IndexError", url |-> None, score |-> 0]
    ELSE best_of(best_results(dict), views)

----------------------------------------------------------------------------
\* Inputs

Res(url, verified, isrc_search, slug_name, artists, slug_album, duration, views, rMain, rArtists, rPairs, rChannel, rTest, rAlbum, rClean, rName) ==
    [url |-> url, verified |-> verified, isrc_search |-> isrc_search,
     slug_name |-> slug_name, artists |-> artists, slug_album |-> slug_album,
     duration |-> duration, views |-> views, rMain |-> rMain,
     rArtists |-> rArtists, rPairs |-> rPairs, rChannel |-> rChannel,
     rTest |-> rTest, rAlbum |-> rAlbum, rClean |-> rClean, rName |-> rName]

\* The song of the searches: "a-b" by "c", album "b", 200 seconds.
SearchSong(isrc) ==
    [slug_name |-> <<1, 0, 2>>, slug_album_name |-> <<2>>,
     artists |-> << <<3>> >>, slug_title |-> <<3, 0, 1, 0, 2>>,
     duration |-> 200, isrc |-> isrc]

\* What the backend can answer to a query: a song of score 85, videos of
\* scores 78 (without stored views) and 65, and a video without a word of
\* the song's name.
Catalogue ==
    { Res("u85", TRUE, FALSE, <<1, 0, 2, 0, 1>>, << <<3>> >>, <<>>, 201,
          10, 100, 0, <<>>, 0, 70, 0, 0, 70),
      Res("u78", FALSE, FALSE, <<1, 0, 2, 0, 2>>, << <<3>> >>, <<>>, 200,
          0, 100, 0, <<>>, 0, 56, 0, 0, 56),
      Res("u65", FALSE, FALSE, <<1, 0, 3>>, << <<3, 3>> >>, <<>>, 200,
          5, 80, 0, <<>>, 0, 50, 0, 0, 50),
      Res("u0", FALSE, FALSE, <<3, 3>>, << <<3>> >>, <<>>, 200,
          9, 100, 0, <<>>, 0, 100, 0, 0, 40) }

\* What the backend can answer to a lookup by ISRC: songs of scores 100 and
\* 85, and one of an artist match under 70.
IsrcCatalogue ==
    { Res("i100", TRUE, TRUE, <<1, 0, 2>>, << <<3>> >>, <<2>>, 200,
          70, 100, 0, <<>>, 0, 100, 0, 0, 100),
      Res("i85", TRUE, TRUE, <<1, 0, 2, 0, 1>>, << <<3>> >>, <<>>, 203,
          10, 100, 0, <<>>, 0, 70, 0, 0, 70),
      Res("i0", TRUE, TRUE, <<1>>, << <<1>> >>, <<>>, 200,
          9, 20, 0, <<>>, 0, 40, 0, 30, 40) }

\* The longest list a get_results call returns.
MaxResults == 3

\* The lists of at most n different results of a set
ListsOf(set, n) ==
    {list \in UNION {[1..k -> set] : k \in 0..n} :
        \A i, j \in 1..Len(list) : i # j => list[i] # list[j]}

\* The number of option sets of GET_RESULTS_OPTS.
NumOpts == 2

\* The urls whose views get_best_match may have to fetch.
LookupUrls == {r.url : r \in {x \in Catalogue \cup IsrcCatalogue : x.views = 0}}

\* What get_views may answer for a url: it raises, or a count.
ViewAnswers == {[ok |-> FALSE, count |-> 0], [ok |-> TRUE, count |-> 90]}

\* The log of a get_results call: what is 0 for the lookup by ISRC and the
\* index of the option set otherwise, ok is FALSE when it raised, and kept
\* is the length of the dict made of the list it returned.
Fetch(what, ok, kept) == [what |-> what, ok |-> ok, kept |-> kept]

NoCall == [called |-> FALSE, arg |-> <<>>, raises |-> "none", url |-> None,
           score |-> 0]

\* The log of a call get_best_match(dict) that ended as out
Logged(dict, out) ==
    [called |-> TRUE, arg |-> dict, raises |-> out.raises, url |-> out.url,
     score |-> out.score]

Call(dict, views) == Logged(dict, get_best_match(dict, views))

----------------------------------------------------------------------------
\* search

Init ==
    /\ track \in {SearchSong(isrc) : isrc \in BOOLEAN}
    /\ cfg \in [filter_results : BOOLEAN, search_query : BOOLEAN,
                SUPPORTS_ISRC : BOOLEAN]
    /\ view_count \in [LookupUrls -> ViewAnswers]
    /\ pc = "start"
    /\ opt = 1
    /\ search_results = <<>>
    /\ new_results = <<>>
    /\ results = <<>>
    /\ fetched = <<>>
    /\ best = NoCall
    /\ ret = None
    /\ err = "none"

\* search raises
Raise(what) ==
    /\ pc' = "raised"
    /\ err' = what
    /\ UNCHANGED <<ret, results, opt>>

\* search returns
Return(value) ==
    /\ pc' = "done"
    /\ ret' = value
    /\ UNCHANGED <<err, results, opt>>

\* The search query is built: the ISRC is looked up only without a custom
\* search_query.
BuildQuery ==
    /\ pc = "start"
    /\ pc' = IF ~cfg.search_query /\ track.isrc /\ cfg.SUPPORTS_ISRC
             THEN "isrc" ELSE "options"
    /\ UNCHANGED <<track, cfg, view_count, opt, search_results, new_results,
                   results, fetched, best, ret, err>>

\* isrc_match with the 80 of the loop for the 90 of the lookup
isrc_match_over_80(dict) == Len(dict) = 1 /\ dict[1].score > Pts(80)

\* whether the result of the lookup by ISRC is returned
isrc_match(dict) == Len(dict) = 1 /\ dict[1].score > Pts(90)

\* search after order_results([isrc_results[0]], song)
AfterIsrcOrder(sorted_isrc_results) ==
    /\ fetched' = Append(fetched, Fetch(0, TRUE, Len(sorted_isrc_results.dict)))
    /\ IF sorted_isrc_results.raises
       THEN /\ Raise("ZeroDivisionError")
            /\ new_results' = <<>>
       ELSE /\ new_results' = sorted_isrc_results.dict
            /\ IF isrc_match(sorted_isrc_results.dict)
               THEN Return(sorted_isrc_results.dict[1].result.url)
               ELSE /\ pc' = "options"
                    /\ UNCHANGED <<ret, err, results, opt>>

\* get_results(song.isrc, ...) returns isrc_results
IsrcSearch ==
    /\ pc = "isrc"
    /\ \E isrc_results \in ListsOf(IsrcCatalogue, 2) :
        /\ search_results' = isrc_results
        /\ IF Len(isrc_results) # 1
           THEN /\ pc' = "options"
                /\ fetched' = Append(fetched, Fetch(0, TRUE, 0))
                /\ new_results' = <<>>
                /\ UNCHANGED <<ret, err, results, opt>>
           ELSE AfterIsrcOrder(order_results(<<isrc_results[1]>>, track))
    /\ UNCHANGED <<track, cfg, view_count, best>>

\* get_results(song.isrc, ...) raises
IsrcSearchRaises ==
    /\ pc = "isrc"
    /\ fetched' = Append(fetched, Fetch(0, FALSE, 0))
    /\ Raise("get_results")
    /\ UNCHANGED <<track, cfg, view_count, search_results, new_results, best>>

\* new_results when the results are not filtered
unfiltered_results(list) ==
    LET empty == <<>>
    IN  IF Len(empty) > 0
        THEN <<[result |-> list[1], score |-> Pts(100)]>>
        ELSE empty

\* get_best_match called whatever new_results holds
always_new_results(dict) == TRUE

\* whether the loop calls get_best_match on new_results
has_new_results(dict) == Len(dict) # 0

\* new_results of a pass of the loop: [raises, dict]
ordered_results(list, song, filter_results) ==
    IF filter_results
    THEN order_results(list, song)
    ELSE [raises |-> FALSE, dict |-> unfiltered_results(list)]

\* a pass of the loop after get_best_match(new_results)
AfterBestMatch(dict, call) ==
    /\ best' = call
    /\ IF call.raises # "none" THEN Raise(call.raises)
       ELSE IF call.score >= Pts(80) THEN Return(call.url)
       ELSE /\ results' = DictUpdate(results, dict)
            /\ opt' = opt + 1
            /\ UNCHANGED <<pc, ret, err>>

\* a pass of the loop after new_results is known
AfterOrder(ordered) ==
    /\ fetched' = Append(fetched, Fetch(opt, TRUE, Len(ordered.dict)))
    /\ IF ordered.raises
       THEN /\ Raise("ZeroDivisionError")
            /\ new_results' = <<>>
            /\ best' = best
       ELSE /\ new_results' = ordered.dict
            /\ IF ~has_new_results(ordered.dict)
               THEN /\ opt' = opt + 1
                    /\ UNCHANGED <<pc, ret, err, results, best>>
               ELSE AfterBestMatch(ordered.dict, Call(ordered.dict, view_count))

\* One pass of the loop over GET_RESULTS_OPTS: get_results returns list
OptionsSearch ==
    /\ pc = "options"
    /\ opt <= NumOpts
    /\ \E list \in ListsOf(Catalogue, MaxResults) :
        /\ search_results' = list
        /\ AfterOrder(ordered_results(list, track, cfg.filter_results))
    /\ UNCHANGED <<track, cfg, view_count>>

\* get_results(search_query, **options) raises, and the loop goes on to
\* the next option set
OptionsSearchSkips ==
    /\ pc = "options"
    /\ opt <= NumOpts
    /\ fetched' = Append(fetched, Fetch(opt, FALSE, 0))
    /\ opt' = opt + 1
    /\ UNCHANGED <<track, cfg, view_count, pc, search_results, new_results,
                   results, best, ret, err>>

\* get_results(search_query, **options) raises
OptionsSearchRaises ==
    /\ pc = "options"
    /\ opt <= NumOpts
    /\ fetched' = Append(fetched, Fetch(opt, FALSE, 0))
    /\ Raise("get_results")
    /\ UNCHANGED <<track, cfg, view_count, search_results, new_results, best>>

\* whether search has no match after the loop
no_matches(dict) == dict = <<>>

\* search after the last get_best_match(results)
AfterLastMatch(call) ==
    /\ best' = call
    /\ IF call.raises # "none" THEN Raise(call.raises) ELSE Return(call.url)

\* After the loop: None, or the best match of results
Finish ==
    /\ pc = "options"
    /\ opt > NumOpts
    /\ IF no_matches(results)
       THEN /\ Return(None)
            /\ best' = best
       ELSE AfterLastMatch(Call(results, view_count))
    /\ UNCHANGED <<track, cfg, view_count, search_results, new_results, fetched>>

Next ==
    \/ BuildQuery
    \/ IsrcSearch
    \/ IsrcSearchRaises
    \/ OptionsSearch
    \/ OptionsSearchRaises
    \/ Finish

Spec == Init /\ [][Next]_vars

----------------------------------------------------------------------------
\* get_best_match on its own: results is its argument, best its outcome

\* The results of the dicts: with stored views 10, 50 and 50, and without.
SelectResults ==
    { Res(u[1], FALSE, FALSE, <<1>>, <<>>, <<>>, 200, u[2],
          0, 0, <<>>, 0, 0, 0, 0, 0) :
      u \in {<<"a", 10>>, <<"b", 50>>, <<"c", 50>>, <<"d", 0>>} }

\* Their scores: 100, 93, 92 (8 under 100) and 80.
SelectScores == {Pts(100), Pts(93), Pts(92), Pts(80)}

\* The dicts of at least one and at most n items
DictsOf(n) ==
    UNION { { [i \in 1..Len(keys) |-> [result |-> keys[i], score |-> scores[i]]] :
              scores \in [1..Len(keys) -> SelectScores] } :
            keys \in ListsOf(SelectResults, n) \ {<<>>} }

InitSelect ==
    /\ track = SearchSong(FALSE)
    /\ cfg = [filter_results |-> TRUE, search_query |-> FALSE,
              SUPPORTS_ISRC |-> FALSE]
    /\ view_count \in [{"d"} -> ViewAnswers]
    /\ pc = "start"
    /\ opt = 1
    /\ search_results = <<>>
    /\ new_results = <<>>
    /\ results \in DictsOf(MaxResults)
    /\ fetched = <<>>
    /\ best = NoCall
    /\ ret = None
    /\ err = "none"

\* get_best_match(results) is called
Select ==
    /\ pc = "start"
    /\ AfterLastMatch(Call(results, view_count))
    /\ UNCHANGED <<track, cfg, view_count, search_results, new_results, fetched>>

SpecSelect == InitSelect /\ [][Select]_vars

----------------------------------------------------------------------------
\* order_results on its own: search_results is the list of one result it is
\* given, new_results the dict it returns

\* The songs: "a-b" by "c" (of 200, 0 and -200 seconds), by "c" and "b",
\* by "c", "b" and "a-c", and by "c", "b", "a-c" and "a"
ScoreSongs ==
    { [slug_name |-> <<1, 0, 2>>, slug_album_name |-> <<2>>,
       artists |-> << <<3>> >>, slug_title |-> <<3, 0, 1, 0, 2>>,
       duration |-> d, isrc |-> FALSE] : d \in {200, 0, -200} }
    \cup
    { [slug_name |-> <<1, 0, 2>>, slug_album_name |-> <<2>>,
       artists |-> << <<3>>, <<2>> >>, slug_title |-> <<3, 0, 2, 0, 1, 0, 2>>,
       duration |-> 200, isrc |-> FALSE],
      [slug_name |-> <<1, 0, 2>>, slug_album_name |-> <<2>>,
       artists |-> << <<3>>, <<2>>, <<1, 0, 3>> >>,
       slug_title |-> <<3, 0, 2, 0, 1, 0, 3, 0, 1, 0, 2>>,
       duration |-> 200, isrc |-> FALSE],
      [slug_name |-> <<1, 0, 2>>, slug_album_name |-> <<2>>,
       artists |-> << <<3>>, <<2>>, <<1, 0, 3>>, <<1>> >>,
       slug_title |-> <<3, 0, 2, 0, 1, 0, 3, 0, 1, 0, 1, 0, 2>>,
       duration |-> 200, isrc |-> FALSE] }

\* The results scored for a song, named "a-b", "a-c", "cc" or "ab".  A field the scorer does not read for the
\* result (the album fields of a video, rArtists unless both have the same
\* number of artists, more than one, ...) is left at its default.
ScoreResults(song) ==
    { Res("r", verified, verified /\ isrc_search, slug_name, artists,
          IF verified THEN slug_album ELSE <<>>,
          duration, 0, rMain,
          IF Len(song.artists) > 1 /\ Len(song.artists) = Len(artists)
          THEN rArtists ELSE 0,
          IF /\ Len(song.artists) > 2
             /\ Len(song.artists) # Len(artists)
             /\ Len(artists) * 100 > 60 * Len(song.artists)
          THEN <<rArtists, rMain>> ELSE <<>>,
          IF ~verified /\ Len(artists) > 1 THEN rChannel ELSE 0,
          rTest,
          IF verified /\ slug_album # <<>> THEN rAlbum ELSE 0,
          IF verified THEN rClean ELSE 0,
          rName) :
      verified \in BOOLEAN, isrc_search \in BOOLEAN,
      slug_name \in {<<1, 0, 2>>, <<1, 0, 3>>, <<3, 3>>, <<1, 2>>},
      artists \in {<<>>, << <<3>> >>, << <<3>>, <<2>> >>},
      slug_album \in {<<>>, <<2>>},
      duration \in {201, 210, 260},
      rMain \in {20, 60, 100}, rArtists \in {40, 100},
      rChannel \in {30, 80}, rTest \in {40, 76, 100},
      rAlbum \in {50, 90}, rClean \in {30, 72}, rName \in {45, 60} }

InitScore ==
    /\ track \in ScoreSongs
    /\ cfg = [filter_results |-> TRUE, search_query |-> FALSE,
              SUPPORTS_ISRC |-> FALSE]
    /\ view_count = [u \in {} |-> 0]
    /\ pc = "start"
    /\ opt = 1
    /\ search_results \in {<<r>> : r \in ScoreResults(track)}
    /\ new_results = <<>>
    /\ results = <<>>
    /\ fetched = <<>>
    /\ best = NoCall
    /\ ret = None
    /\ err = "none"

\* order_results after it raised or returned
AfterScore(ordered) ==
    /\ new_results' = ordered.dict
    /\ pc' = IF ordered.raises THEN "raised" ELSE "done"
    /\ err' = IF ordered.raises THEN "ZeroDivisionError" ELSE "none"

\* order_results(search_results, song) is called
Score ==
    /\ pc = "start"
    /\ AfterScore(order_results(search_results, track))
    /\ UNCHANGED <<track, cfg, view_count, opt, search_results, results,
                   fetched, best, ret>>

SpecScore == InitScore /\ [][Score]_vars

----------------------------------------------------------------------------
\* Properties of search (under Spec)

\* The last get_results call was a pass of the loop that returned a list.
AfterPass ==
    /\ fetched # <<>>
    /\ fetched[Len(fetched)].what >= 1
    /\ fetched[Len(fetched)].ok

\* C1: a pass of the loop in which some scored candidate has a score of at
\* least 80 returns a url of that pass at once, whatever the scores and the
\* views of the pass: search is done after it, with no further fetch and
\* nothing merged into results.
C1_HighScoreReturnsAtOnce ==
    ( /\ AfterPass
      /\ err = "none"
      /\ \E i \in 1..Len(new_results) : new_results[i].score >= Pts(80) )
    => /\ pc = "done"
       /\ \E i \in 1..Len(new_results) : ret = new_results[i].result.url
       /\ fetched[Len(fetched)].what = opt

\* C2: without result filtering, a pass that fetched a list that is not
\* empty returns the url of the first result of the list.
C2_UnfilteredReturnsFirst ==
    ( /\ AfterPass
      /\ ~cfg.filter_results
      /\ search_results # <<>> )
    => /\ pc = "done"
       /\ ret = search_results[1].url

\* The state right after the lookup by ISRC returned.
AfterIsrc == Len(fetched) = 1 /\ fetched[1].what = 0 /\ fetched[1].ok

\* The lookup returned one result, which order_results scored over 90.
IsrcHit ==
    /\ Len(search_results) = 1
    /\ Len(new_results) = 1
    /\ new_results[1].score > Pts(90)

\* what C5 says of the lookup once it is made: one result scored over 90 is
\* returned with no fetch by query, anything else goes on to the loop
IsrcOutcome ==
    /\ (AfterIsrc /\ err = "none" /\ IsrcHit)
            => pc = "done" /\ ret = search_results[1].url
    /\ (AfterIsrc /\ err = "none" /\ ~IsrcHit)
            => pc = "options" /\ opt = 1 /\ ret = None
    /\ (ret \in {r.url : r \in IsrcCatalogue}) => Len(fetched) = 1

\* C5 as stated: with an ISRC and a backend that supports the lookup, the
\* first fetch of search is the lookup by ISRC.
C5_IsrcLookupFirst ==
    /\ (track.isrc /\ cfg.SUPPORTS_ISRC /\ fetched # <<>>)
            => fetched[1].what = 0
    /\ IsrcOutcome

\* C5, amended: with an ISRC, a backend that supports the lookup and no
\* custom search query, the first fetch is the lookup by ISRC; one result
\* scored over 90 is returned with no fetch by query, and anything else goes
\* on to the loop.  With a custom search query there is no lookup by ISRC.
C5_IsrcLookupFirstUnlessCustomQuery ==
    /\ (track.isrc /\ cfg.SUPPORTS_ISRC /\ ~cfg.search_query /\ fetched # <<>>)
            => fetched[1].what = 0
    /\ cfg.search_query => \A i \in 1..Len(fetched) : fetched[i].what # 0
    /\ IsrcOutcome

\* C5's case: the one result of the lookup was returned, with no other fetch.
C5_Witness ==
    /\ pc = "done"
    /\ AfterIsrc
    /\ IsrcHit
    /\ ret = "i100"

\* The log of the passes of the loop.
Passes == SelectSeq(fetched, LAMBDA f : f.what >= 1)

\* Every option set was fetched, and none left a scored candidate.
NothingMatched ==
    /\ Len(Passes) = NumOpts
    /\ \A i \in 1..NumOpts : Passes[i].ok /\ Passes[i].kept = 0

\* C6: when every option set yields an empty list or only candidates the
\* scorer rejects, search returns None and raises nothing; and
\* get_best_match is never called on an empty dict.
C6_NoMatchIsNone ==
    /\ best.called => best.arg # <<>> /\ best.raises # "IndexError"
    /\ NothingMatched => err = "none" /\ ret = None /\ pc \in {"options", "done"}

\* C6's case: search is done, having rejected all of the list (not empty)
\* the last option set yielded, the others having left nothing either.
C6_Witness ==
    /\ pc = "done"
    /\ NothingMatched
    /\ cfg.filter_results
    /\ search_results # <<>>
    /\ ret = None

\* C7: the option sets are fetched in their order, each at most once, and a
\* get_results call that raises is the last one: search raises its error and
\* returns no url.
C7_FetchOnceInOrder ==
    /\ fetched # <<>> => fetched[1].what \in {0, 1}
    /\ \A i \in 1..(Len(fetched) - 1) : fetched[i + 1].what = fetched[i].what + 1
    /\ \A i \in 1..Len(fetched) :
            ~fetched[i].ok => /\ i = Len(fetched)
                              /\ pc = "raised"
                              /\ err = "get_results"
                              /\ ret = None

\* C7's case: the second option set's fetch raised, after the first was
\* fetched.
C7_Witness ==
    /\ Len(Passes) = 2
    /\ Passes[1].ok
    /\ ~Passes[2].ok
    /\ pc = "raised"

\* An entry of the tie set of the last get_best_match call has no stored
\* views, and its lookup fails.
LookupFails ==
    /\ best.called
    /\ Len(best_results(best.arg)) > 1
    /\ \E i \in 1..Len(best_results(best.arg)) :
            /\ best_results(best.arg)[i].result.views = 0
            /\ ~view_count[best_results(best.arg)[i].result.url].ok

\* C8: when the lookup of the views fails for an entry of the tie set,
\* get_best_match raises and so does search: no url is returned.
C8_LookupFailureRaises ==
    LookupFails => /\ best.raises = "get_views"
                   /\ best.url = None
                   /\ pc = "raised"
                   /\ err = "get_views"
                   /\ ret = None

\* C8's case: search raised what get_views raised.
C8_Witness == LookupFails /\ pc = "raised" /\ err = "get_views"

----------------------------------------------------------------------------
\* Properties of get_best_match (under SpecSelect)

\* The views of an item as C3 reads them: stored, else fetched.
Popularity(item) ==
    IF item.result.views # 0 THEN item.result.views
    ELSE view_count[item.result.url].count

\* The tie set as C3 states it: the items within 8 points of the best, which
\* are a prefix of the sorted items.
WithinEight(dict) ==
    SelectSeq(sorted_by_score(dict),
              LAMBDA item : sorted_by_score(dict)[1].score - item.score <= Pts(8))

\* The item C3 names: the only one of the tie set, or else the first of the
\* most viewed of the tie set.
MostPopular(ties) ==
    ties[CHOOSE i \in 1..Len(ties) :
            /\ \A j \in 1..Len(ties) : Popularity(ties[j]) <= Popularity(ties[i])
            /\ \A j \in 1..(i - 1) : Popularity(ties[j]) < Popularity(ties[i])]

\* C3: get_best_match returns the most popular entry of the tie set, the
\* maximal prefix of the sorted entries within 8 points of the best; when
\* every entry is within 8 points, all of them are compared.
C3_MostPopularOfTieSet ==
    ( /\ best.called
      /\ best.raises = "none"
      /\ \A i \in 1..Len(WithinEight(results)) :
            \/ WithinEight(results)[i].result.views # 0
            \/ view_count[WithinEight(results)[i].result.url].ok )
    => /\ best.url = MostPopular(WithinEight(results)).result.url
       /\ best.score = MostPopular(WithinEight(results)).score

----------------------------------------------------------------------------
\* Properties of order_results (under SpecScore)

\* C9: for a song of a duration of 0 or less, order_results returns no
\* scored candidate and does not reach the division by the duration.
C9_NonPositiveDurationRejected ==
    track.duration <= 0 => new_results = <<>> /\ err # "ZeroDivisionError"

\* C10: for every item of the dict order_results returns, the artist match
\* the score is made of is at least 70 and at most 100 and the name match is
\* at least 50; the score is their average, plus half the album match at
\* most, and is not clamped.
C10_SubScoresBounded ==
    \A i \in 1..Len(new_results) :
        LET one == score_result(new_results[i].result, track)
        IN  /\ one.outcome = "keep"
            /\ Pts(70) <= one.artist_match /\ one.artist_match <= Pts(100)
            /\ Pts(50) <= one.name_match
            /\ new_results[i].score >= Div(one.artist_match + one.name_match, 2)
            /\ new_results[i].score <= Div(one.artist_match + one.name_match, 2)
                                        + Pts(50)

\* C10's case: a candidate whose artist match was clamped from over 100 is
\* scored over 100.
C10_Witness ==
    /\ pc = "done"
    /\ new_results # <<>>
    /\ raw_artist_match(new_results[1].result, track) > Pts(100)
    /\ new_results[1].score > Pts(100)

\* the words the result's name and the song's name share
common_words(result, song) ==
    { w \in { Split(song.slug_name)[i] : i \in 1..Len(Split(song.slug_name)) } :
        /\ w # <<>>
        /\ \E j \in 1..Len(Split(result.slug_name)) :
                Split(result.slug_name)[j] = w }

\* C11: a candidate whose name shares no word with the song's name is not
\* in the dict order_results returns (seen here for the songs of a duration
\* over 0).
C11_NoCommonWordAbsent ==
    track.duration > 0 =>
        \A i \in 1..Len(new_results) :
            common_words(new_results[i].result, track) # {}

\* the result passed the gates on artist_match (raw before the clamp) and
\* name_match
PassedGates(result, raw) ==
    /\ common_word(result, track)
    /\ raw >= Pts(70)
    /\ name_match(result, clamp_artist_match(raw)) >= Pts(50)

\* the average of the artist match and the name match of the result
ArtistNameAverage(result, raw) ==
    Div(clamp_artist_match(raw) + name_match(result, clamp_artist_match(raw)), 2)

\* a result past the gates with a time match under 50 is in the dict if
\* and only if the average of its artist and name matches is 85 or more
TimeGated(result, raw) ==
    PassedGates(result, raw) /\ time_match(result, track) < Pts(50)
        => (result \in Keys(new_results)
                <=> ArtistNameAverage(result, raw) >= Pts(85))

\* C12: once order_results returned, every result it was given that passed
\* the artist and name gates with a time match under 50 is in the returned
\* dict if and only if the average of its artist match and name match is at
\* least 85.
C12_TimeGate ==
    pc = "done" /\ track.duration # 0 =>
        \A i \in 1..Len(search_results) :
            TimeGated(search_results[i],
                      raw_artist_match(search_results[i], track))

\* C12's case: a result 60 seconds off a song of 200 seconds (a time match
\* of -1700) is in the returned dict.
C12_Witness ==
    /\ pc = "done"
    /\ track.duration = 200
    /\ search_results[1].duration = 260
    /\ time_match(search_results[1], track) = Pts(0 - 1700)
    /\ search_results[1] \in Keys(new_results)

\* what order_results returns for the result when its artist_match after
\* the channel fallback is channel_name_match
with_channel_name(result, song) ==
    with_scored(<<>>, result,
        score_artist(result, song,
            verified_checks(result, song,
                title_fallback(result, song, channel_name_match(result)))))

\* C13: for a result that is not verified, with a first artist_match of 50
\* or less and a higher channel_name_match, order_results returns what
\* follows from an artist_match of channel_name_match, whatever the number
\* of the song's artists.
C13_ChannelNameReplaces ==
    /\ pc = "done"
    /\ ~search_results[1].verified
    /\ common_word(search_results[1], track)
    /\ first_artist_match(search_results[1], track) <= Pts(50)
    /\ channel_name_match(search_results[1])
            > first_artist_match(search_results[1], track)
    => new_results = with_channel_name(search_results[1], track)

\* the score is the average of the two matches, or that average plus half
\* the album match
ScoreOf(item, one) ==
    /\ one.outcome = "keep"
    /\ \/ item.score = Div(one.artist_match + one.name_match, 2)
       \/ /\ item.score = Div(one.artist_match + one.name_match, 2)
                            + Div(album_match(item.result), 2)
          /\ item.result.verified
          /\ item.result.slug_album # <<>>
    /\ Pts(60) <= item.score /\ item.score <= Pts(150)
    /\ time_match(item.result, track) < Pts(50) => item.score >= Pts(85)

====
